---- MODULE Spec2Model ----
(***************************************************************************)
(* Model of the voyager package: the working-area registry (wor.py) and    *)
(* the positionlist (pls.py, _helpers.py).                                 *)
(*                                                                         *)
(* Lengths are fixed-point integers.  Working-area coordinates count       *)
(* 1e-4 um, one digit more than the .wor file keeps (precision=3).         *)
(* Python lists are 1-based sequences here; every index that comes from    *)
(* the program (num, active, path entries, row labels) stays 0-based.      *)
(***************************************************************************)
EXTENDS Integers, Sequences, FiniteSets, TLC

VARIABLES
    cells,      \* WorkingAreas.cells: cell name -> WA record (wa_list, active)
    waLast,     \* the last registry call and how it ended
    waHist,     \* per cell: how its record was built (history, for the
                \* [A,B,C] scenario)
    worFile,    \* the .wor file on disk
    worRead,    \* the registry read_wor returned
    df,         \* Positionlist.df: the rows, each with its index label
    plsCells,   \* Positionlist.cells: the keys, in insertion order
    plsLast,    \* the last positionlist call and how it ended
    wlo,        \* Positionlist.wlo: the wafer layout name
    plsFile,    \* the .pls file on disk
    plsRead     \* what read_pls returned

waVars == <<cells, waLast, waHist, worFile, worRead>>

plsIo == <<wlo, plsFile, plsRead>>

plsVars == <<df, plsCells, plsLast, wlo, plsFile, plsRead>>

vars ==
    <<cells, waLast, waHist, worFile, worRead, df, plsCells, plsLast, wlo,
      plsFile, plsRead>>

----------------------------------------------------------------------------
(* Bounds and input sets                                                   *)

\* At most this many rectangles are held by the registry at once.
MaxAreas == 3

\* Cell names handed to the registry.
Names == {"a", "b"}

RectA == <<0, 0, 200000, 200000>>
RectB == <<-100014, -100014, 1000026, 1000026>>
RectC == <<100000, 100000, 300000, 300000>>

\* Rectangles handed to add: (left, bottom, right, top) in 1e-4 um.  RectB
\* has digits below the file's precision.  All stay in the range where
\* numpy prints an array in fixed notation (no exponent).
Rects == {RectA, RectB, RectC}

\* Values of the num argument: in range, negative, and past the end.
Nums == (-2) .. MaxAreas

----------------------------------------------------------------------------
(* Python list helpers                                                     *)

\* s with the element at 0-based position k removed.
RemoveAt(s, k) ==
    [i \in 1 .. (Len(s) - 1) |-> IF i <= k THEN s[i] ELSE s[i + 1]]

\* list[num] is defined for -len <= num < len.
PyIndexOk(n, num) == (-n) <= num /\ num < n

\* The 0-based position list[num] refers to.
PyIndex(n, num) == IF num < 0 THEN num + n ELSE num

\* A dict without one key.
DictDel(d, k) == [n \in (DOMAIN d) \ {k} |-> d[n]]

\* A dict with one key set.
DictSet(d, k, v) == [n \in (DOMAIN d) \cup {k} |-> IF n = k THEN v ELSE d[n]]

EmptyDict == [n \in {} |-> 0]

\* The order sorted() puts the cell names in.
NameRank == [n \in Names |-> IF n = "a" THEN 0 ELSE 1]

NameBefore(x, y) == NameRank[x] < NameRank[y]

----------------------------------------------------------------------------
(* Positionlist: state                                                     *)

\* The columns of the dataframe that are modelled.  U and V are in mm,
\* DoseFactor in tenths.
Fields ==
    {"ID", "U", "V", "Comment", "Options", "Link", "File", "Layer", "Area",
     "DoseFactor", "Dwelltime"}

\* A row whose every column is NaN; nan names the columns that are NaN, and
\* a NaN column holds 0 or "" here.
EmptyRow ==
    [ID |-> 0, U |-> 0, V |-> 0, Comment |-> "", Options |-> "", Link |-> "",
     File |-> "", Layer |-> <<>>, Area |-> <<>>, DoseFactor |-> 0,
     Dwelltime |-> 0, nan |-> Fields]

\* The keys of the wafermaps table.
wafermaps ==
    {"3 inch left.wlo", "4 inch left.wlo", "4.8x4.8.wlo", "10x10.wlo",
     "12x12mm.wlo", "20mm2.wlo", "24mm2.wlo", "50x50.wlo", "Bare_4inch.wlo",
     "Bare_6inch.wlo", "Bare_8inch.wlo", "DEFAULT.wlo"}

\* No .pls file on disk, nothing read.
NoPls == [exists |-> FALSE]

\* Positionlist.__init__ with the default WaferLayout: no rows, no cells.
PlsInit ==
    /\ df = <<>>
    /\ plsCells = <<>>
    /\ plsLast = [op |-> "none", err |-> "ok"]
    /\ wlo = "DEFAULT.wlo"
    /\ plsFile = NoPls
    /\ plsRead = NoPls

----------------------------------------------------------------------------
(* class WA                                                                *)

\* WA.__init__: one rectangle, active 0.
WA_init(working_area) == [wa_list |-> <<working_area>>, active |-> 0]

\* Mutant of WA_add: appends but leaves active where it was.
WA_add_keepActive(wa, working_area) ==
    [wa_list |-> Append(wa.wa_list, working_area), active |-> wa.active]

\* WA.add: append and make the new last rectangle active.
WA_add(wa, working_area) ==
    LET l == Append(wa.wa_list, working_area)
    IN  [wa_list |-> l, active |-> Len(l) - 1]

\* Mutant of WA_delete: deletes the rectangle but never resets active.
WA_delete_keepActive(wa, num) ==
    [wa_list |-> RemoveAt(wa.wa_list, PyIndex(Len(wa.wa_list), num)),
     active  |-> wa.active]

\* WA.delete for a num the list accepts: del wa_list[num], then active is
\* reset only when it equals num as given.
WA_delete(wa, num) ==
    LET l == RemoveAt(wa.wa_list, PyIndex(Len(wa.wa_list), num))
    IN  [wa_list |-> l,
         active  |-> IF wa.active = num THEN Len(l) - 1 ELSE wa.active]

----------------------------------------------------------------------------
(* class WorkingAreas                                                      *)

TotalAreas(reg) ==
    LET RECURSIVE Sum(_)
        Sum(S) == IF S = {} THEN 0
                  ELSE LET n == CHOOSE x \in S : TRUE
                       IN  Len(reg[n].wa_list) + Sum(S \ {n})
    IN  Sum(DOMAIN reg)

\* WorkingAreas.add
WorkingAreas_add(reg, name, working_area) ==
    IF name \in DOMAIN reg
    THEN DictSet(reg, name, WA_add(reg[name], working_area))
    ELSE DictSet(reg, name, WA_init(working_area))

\* WorkingAreas.delete; hasNum is FALSE when num is omitted (None).
\* Returns the registry and how the call ended.
WorkingAreas_delete(reg, name, hasNum, num) ==
    IF name \notin DOMAIN reg
    THEN [cells |-> reg, err |-> "KeyError"]
    ELSE IF ~hasNum \/ Len(reg[name].wa_list) = 1
    THEN [cells |-> DictDel(reg, name), err |-> "ok"]
    ELSE IF ~PyIndexOk(Len(reg[name].wa_list), num)
    THEN [cells |-> reg, err |-> "IndexError"]
    ELSE [cells |-> DictSet(reg, name, WA_delete(reg[name], num)), err |-> "ok"]

\* WorkingAreas.setActive
WorkingAreas_setActive(reg, name, num) ==
    IF name \notin DOMAIN reg
    THEN [cells |-> reg, err |-> "KeyError"]
    ELSE IF 0 <= num /\ num < Len(reg[name].wa_list)
    THEN [cells |-> DictSet(reg, name, [reg[name] EXCEPT !.active = num]),
          err |-> "ok"]
    ELSE [cells |-> reg, err |-> "ValueError"]

NoCall == [op |-> "none", err |-> "ok"]

\* History of a cell's record: "A", "AB", "ABC" while exactly RectA, RectB,
\* RectC have been added in this order to a fresh record, "ABCdel" once
\* rectangles of such a record have been deleted by an index in
\* 0..len-1 and nothing else was done to it, "none" without a record,
\* "other" otherwise.
HistAdd(h, rect) ==
    CASE h = "none" /\ rect = RectA -> "A"
      [] h = "A" /\ rect = RectB -> "AB"
      [] h = "AB" /\ rect = RectC -> "ABC"
      [] OTHER -> "other"

HistDelete(h, reg, name, hasNum, num, r) ==
    IF r.err # "ok" THEN h
    ELSE IF name \notin DOMAIN r.cells THEN "none"
    ELSE IF h \in {"ABC", "ABCdel"} /\ hasNum /\ 0 <= num
            /\ num < Len(reg[name].wa_list)
    THEN "ABCdel"
    ELSE "other"

Add(name, rect) ==
    /\ TotalAreas(cells) < MaxAreas
    /\ cells' = WorkingAreas_add(cells, name, rect)
    /\ waLast' = [op |-> "add", err |-> "ok"]
    /\ waHist' = [waHist EXCEPT ![name] = HistAdd(@, rect)]
    /\ UNCHANGED <<worFile, worRead, plsVars>>

Delete(name, num) ==
    LET r == WorkingAreas_delete(cells, name, TRUE, num)
    IN  /\ cells' = r.cells
        /\ waLast' = [op |-> "delete", err |-> r.err]
        /\ waHist' = [waHist EXCEPT
                         ![name] = HistDelete(@, cells, name, TRUE, num, r)]
        /\ UNCHANGED <<worFile, worRead, plsVars>>

DeleteAll(name) ==
    LET r == WorkingAreas_delete(cells, name, FALSE, 0)
    IN  /\ cells' = r.cells
        /\ waLast' = [op |-> "delete", err |-> r.err]
        /\ waHist' = [waHist EXCEPT
                         ![name] = HistDelete(@, cells, name, FALSE, 0, r)]
        /\ UNCHANGED <<worFile, worRead, plsVars>>

SetActive(name, num) ==
    LET r == WorkingAreas_setActive(cells, name, num)
    IN  /\ cells' = r.cells
        /\ waLast' = [op |-> "setActive", err |-> r.err]
        /\ waHist' = [waHist EXCEPT
                         ![name] = IF r.err = "ok" THEN "other" ELSE @]
        /\ UNCHANGED <<worFile, worRead, plsVars>>

NoFile == [exists |-> FALSE, blocks |-> <<>>]

WAInit ==
    /\ cells = EmptyDict
    /\ waLast = NoCall
    /\ waHist = [n \in Names |-> "none"]
    /\ worFile = NoFile
    /\ worRead = EmptyDict

Init == WAInit /\ PlsInit

WANext ==
    \/ \E name \in Names, rect \in Rects : Add(name, rect)
    \/ \E name \in Names, num \in Nums : Delete(name, num)
    \/ \E name \in Names : DeleteAll(name)
    \/ \E name \in Names, num \in Nums : SetActive(name, num)

\* The registry under add, delete and setActive.
SpecWA == Init /\ [][WANext]_vars

----------------------------------------------------------------------------
(* The .wor file: WorkingAreas.write and read_wor                          *)

\* 1e-6 / unit for the default unit of 1e-9.
UnitScale == 1000

Abs(x) == IF x < 0 THEN -x ELSE x

Sign(x) == IF x < 0 THEN -1 ELSE IF x > 0 THEN 1 ELSE 0

\* ceil(a / b) for a >= 0, b > 0.
CeilDiv(a, b) == (a + b - 1) \div b

\* rounderupper(x, n=2) of x = num/den: sign(x) * ceil(100 * |x|) / 100,
\* returned in hundredths.
rounderupper(num, den) == Sign(num) * CeilDiv(100 * Abs(num), den)

\* The WorkingArea= line: the active rectangle times 1e-6/unit, rounded up
\* to 2 decimals; in hundredths.  A coordinate c (1e-4 um) times UnitScale
\* is c / (10000 / UnitScale).
HeaderArea(rect) ==
    [k \in 1 .. 4 |-> rounderupper(rect[k], 10000 \div UnitScale)]

\* One number printed with precision=3 in fixed notation: the nearest
\* multiple of 1e-3, a tie going to the even digit.  In 1e-4 um.
Format3(c) ==
    LET q == c \div 10
        r == c % 10
    IN  IF r < 5 THEN 10 * q
        ELSE IF r > 5 THEN 10 * (q + 1)
        ELSE IF q % 2 = 0 THEN 10 * q ELSE 10 * (q + 1)

\* A WorkingArea<j>= line: np.array2string(arr, precision=3, separator=',').
ArrayLine(rect) == [k \in 1 .. 4 |-> Format3(rect[k])]

\* The keys of a dict in sorted order.
RECURSIVE SortedSeq(_)
SortedSeq(S) ==
    IF S = {} THEN <<>>
    ELSE LET m == CHOOSE x \in S : \A y \in S : x = y \/ NameBefore(x, y)
         IN  <<m>> \o SortedSeq(S \ {m})

\* The text write() appends for one cell: the [name] line, the WorkingArea=
\* line, the ActiveWA= line and one WorkingArea<j>= line per rectangle.
Block(name, wa) ==
    [name        |-> name,
     WorkingArea |-> HeaderArea(wa.wa_list[wa.active + 1]),
     ActiveWA    |-> wa.active,
     areas       |-> [j \in 1 .. Len(wa.wa_list) |-> ArrayLine(wa.wa_list[j])]]

\* wa_list[active] raises IndexError for an active past the end.
CanIndex(wa) == PyIndexOk(Len(wa.wa_list), wa.active)

\* The blocks written for the cells in order, up to the first cell whose
\* active index the list does not have.
RECURSIVE WriteBlocks(_, _)
WriteBlocks(reg, order) ==
    IF order = <<>> THEN [blocks |-> <<>>, err |-> "ok"]
    ELSE IF ~CanIndex(reg[Head(order)])
    THEN [blocks |-> <<>>, err |-> "IndexError"]
    ELSE LET rest == WriteBlocks(reg, Tail(order))
         IN  [blocks |-> <<Block(Head(order), reg[Head(order)])>> \o rest.blocks,
              err    |-> rest.err]

\* WorkingAreas.write: the file is truncated, then one block per cell is
\* appended in sorted-name order.
WorkingAreas_write(reg) == WriteBlocks(reg, SortedSeq(DOMAIN reg))

\* read_wor: for each [name] block in file order, the ActiveWA= value, the
\* first four numbers of the WorkingArea<ActiveWA>= line, and
\* WorkingAreas.add(name, rect) on the registry being built.
RECURSIVE read_wor(_)
read_wor(blocks) ==
    IF blocks = <<>> THEN EmptyDict
    ELSE LET b == blocks[Len(blocks)]
         IN  WorkingAreas_add(read_wor(SubSeq(blocks, 1, Len(blocks) - 1)),
                              b.name, b.areas[b.ActiveWA + 1])

Write ==
    LET w == WorkingAreas_write(cells)
    IN  /\ worFile' = [exists |-> TRUE, blocks |-> w.blocks]
        /\ waLast' = [op |-> "write", err |-> w.err]
        /\ UNCHANGED <<cells, waHist, worRead, plsVars>>

Read ==
    /\ IF worFile.exists
       THEN /\ worRead' = read_wor(worFile.blocks)
            /\ waLast' = [op |-> "read_wor", err |-> "ok"]
       ELSE /\ worRead' = worRead
            /\ waLast' = [op |-> "read_wor", err |-> "FileNotFoundError"]
    /\ UNCHANGED <<cells, waHist, worFile, plsVars>>

\* A registry is built, then written and read back.
WorNext ==
    \/ /\ ~worFile.exists
       /\ waLast.op # "read_wor"
       /\ WANext
    \/ Write
    \/ Read

SpecWor == Init /\ [][WorNext]_vars

----------------------------------------------------------------------------
(* Positionlist: bounds and inputs                                         *)

\* add and matrixCopy are taken while the list stays within this many rows.
MaxRows == 3

\* The cells (by name) handed to add.
PlsNames == {"X", "Y"}

\* Positions handed to add, (u, v) in mm.
Positions == {<<0, 0>>, <<3, 1>>}

\* Query strings: '@ALL_VOYAGER', "Comment == '<c>'" and "U < <k>".
Selections ==
    {[kind |-> "all", c |-> "", k |-> 0],
     [kind |-> "comment", c |-> "X", k |-> 0],
     [kind |-> "comment", c |-> "Y", k |-> 0],
     [kind |-> "uless", c |-> "", k |-> 2]}

\* coolingRate values handed to shortSort, as num/den.
CoolingRates == {<<3, 4>>}

----------------------------------------------------------------------------
(* Dataframe helpers                                                       *)

\* df.query(selection) on one row; a comparison with NaN is false.
Matches(row, sel) ==
    CASE sel.kind = "all" -> TRUE
      [] sel.kind = "comment" -> "Comment" \notin row.nan /\ row.Comment = sel.c
      [] sel.kind = "uless" -> "U" \notin row.nan /\ row.U < sel.k

\* The rows as a plain sequence.
RowsOf(d) == [i \in 1 .. Len(d) |-> d[i].row]

\* ignore_index=True / reset_index(drop=True): labels 0..n-1 in row order.
ResetIndex(rows) == [i \in 1 .. Len(rows) |-> [idx |-> i - 1, row |-> rows[i]]]

\* The index labels of the selected rows, in row order.
RECURSIVE QueryIndex(_, _)
QueryIndex(d, sel) ==
    IF d = <<>> THEN <<>>
    ELSE (IF Matches(Head(d).row, sel) THEN <<Head(d).idx>> ELSE <<>>)
           \o QueryIndex(Tail(d), sel)

\* The values of the Comment column that are not NaN.
Comments(d) ==
    {d[i].row.Comment : i \in {j \in 1 .. Len(d) : "Comment" \notin d[j].row.nan}}

\* The elements of a sequence.
Range(q) == {q[i] : i \in 1 .. Len(q)}

----------------------------------------------------------------------------
(* Positionlist.add and entry_adder                                        *)

\* cell.bounding_box() of the cell called name, in 1e-4 um: cell "Y" has no
\* polygons and so no bounding box.
bounding_box(name) ==
    IF name = "Y" THEN [none |-> TRUE, box |-> <<>>]
    ELSE [none |-> FALSE, box |-> <<-10014, -10014, 10026, 10026>>]

\* entry_adder: the new row.  Every column starts as NaN; Comment, U, V,
\* Layer and DoseFactor come from the arguments, ID is the current number of
\* rows, and Area is the bounding box rounded up to 2 decimals (in
\* hundredths of a um), NaN for a cell without bounding box.
entry_adder(d, name, position, layer, dosefactor) ==
    LET bb == bounding_box(name)
    IN  [ID |-> Len(d), U |-> position[1], V |-> position[2], Comment |-> name,
         Options |-> "", Link |-> "", File |-> "", Layer |-> layer,
         Area |-> IF bb.none THEN <<>>
                  ELSE [k \in 1 .. 4 |-> rounderupper(bb.box[k], 10000)],
         DoseFactor |-> dosefactor, Dwelltime |-> 0,
         nan |-> {"Options", "Link", "File", "Dwelltime"}
                   \cup (IF bb.none THEN {"Area"} ELSE {})]

\* Positionlist.add: layer flattened to an array, the row appended with
\* ignore_index=True, then cells[name] = cell.
Positionlist_add(d, cm, name, position, layer, dosefactor) ==
    [df    |-> ResetIndex(Append(RowsOf(d),
                            entry_adder(d, name, position, layer, dosefactor))),
     cells |-> IF name \in Range(cm) THEN cm ELSE Append(cm, name)]

----------------------------------------------------------------------------
(* Positionlist.remove                                                     *)

\* df.drop(index=df.query(selection).index): the other rows keep their labels.
Drop(d, sel) == SelectSeq(d, LAMBDA e : ~Matches(e.row, sel))

\* The loop over self.cells.keys() that deletes from the dict it iterates:
\* the first key no row refers to is deleted, and the iterator then raises
\* RuntimeError (dictionary changed size during iteration) before any other
\* key is looked at.  Without such a key the loop completes.
PruneCells(cm, d) ==
    LET unref == {i \in 1 .. Len(cm) : cm[i] \notin Comments(d)}
    IN  IF unref = {} THEN [cells |-> cm, err |-> "ok"]
        ELSE LET first == CHOOSE i \in unref : \A j \in unref : i <= j
             IN  [cells |-> RemoveAt(cm, first - 1), err |-> "RuntimeError"]

\* Positionlist.remove
Positionlist_remove(d, cm, sel) ==
    LET kept == Drop(d, sel)
        pr   == PruneCells(cm, kept)
    IN  [df |-> kept, cells |-> pr.cells, err |-> pr.err]

----------------------------------------------------------------------------
(* Positionlist.matrixCopy                                                 *)

\* dose_change: lambda x: x + 0.1, in tenths.
dose_change(x) == x + 1

\* func_n: func applied n times.
RECURSIVE func_n(_, _)
func_n(n, x) == IF n = 0 THEN x ELSE func_n(n - 1, dose_change(x))

\* The (i, j, k) of the three nested loops, in order, (0,0) left out.
CopySteps(size, indices) ==
    LET RECURSIVE Cells(_)
        Cells(c) ==
            IF c >= size[1] * size[2] THEN <<>>
            ELSE [n \in 1 .. Len(indices) |->
                     [i |-> c \div size[2], j |-> c % size[2], k |-> indices[n]]]
                   \o Cells(c + 1)
    IN  Cells(1)

\* One pass of the innermost loop body: the row at position k (iloc) is
\* appended with fresh labels, then the new last row gets its offset and the
\* dose of the row now labelled k.  NaN stays NaN.
CopyOne(d, st, size, row_vector, column_vector) ==
    LET src == d[st.k + 1].row
        new == [src EXCEPT
                  !.U = IF "U" \in src.nan THEN @
                        ELSE @ + st.i * row_vector[1] + st.j * column_vector[1],
                  !.V = IF "V" \in src.nan THEN @
                        ELSE @ + st.i * row_vector[2] + st.j * column_vector[2],
                  !.DoseFactor = IF "DoseFactor" \in src.nan THEN @
                                 ELSE func_n(st.i * size[2] + st.j, @)]
    IN  ResetIndex(Append(RowsOf(d), new))

\* The loop: stops with IndexError at the first k that is no position.
RECURSIVE CopyLoop(_, _, _, _, _)
CopyLoop(d, steps, size, row_vector, column_vector) ==
    IF steps = <<>> THEN [df |-> d, err |-> "ok"]
    ELSE IF Head(steps).k >= Len(d) THEN [df |-> d, err |-> "IndexError"]
    ELSE CopyLoop(CopyOne(d, Head(steps), size, row_vector, column_vector),
                  Tail(steps), size, row_vector, column_vector)

\* Positionlist.matrixCopy
Positionlist_matrixCopy(d, size, row_vector, column_vector, sel) ==
    CopyLoop(d, CopySteps(size, QueryIndex(d, sel)), size, row_vector,
             column_vector)

----------------------------------------------------------------------------
(* Positionlist.shortSort                                                  *)

\* distMatrix[a, b] for 0-based positions a, b: the Manhattan distance, NaN
\* when a coordinate is NaN.
DistEntry(d, a, b) ==
    LET ra == d[a + 1].row
        rb == d[b + 1].row
    IN  [nan |-> {"U", "V"} \cap (ra.nan \cup rb.nan) # {},
         v   |-> Abs(ra.U - rb.U) + Abs(ra.V - rb.V)]

\* dist(matrix, path): the sum over consecutive entries of the path.
RECURSIVE dist(_, _)
dist(d, path) ==
    IF Len(path) < 2 THEN [nan |-> FALSE, v |-> 0]
    ELSE LET e == DistEntry(d, path[1], path[2])
             r == dist(d, Tail(path))
         IN  [nan |-> e.nan \/ r.nan, v |-> e.v + r.v]

\* random.sample(range(n), n): the orders of 0..n-1.
PathOrders(n) ==
    {q \in [1 .. n -> 0 .. (n - 1)] : \A a, b \in 1 .. n : q[a] = q[b] => a = b}

\* Mutant of Swap: the second assignment is lost.
Swap_lost(path, i, j) == [path EXCEPT ![i + 1] = path[j + 1]]

\* newPath[i], newPath[j] = newPath[j], newPath[i]
Swap(path, i, j) == [path EXCEPT ![i + 1] = path[j + 1], ![j + 1] = path[i + 1]]

\* np.exp((oldDistance - newDistance)/T) > random.random() for a draw in
\* [0, 1): always true when the new path is not longer, either way when it
\* is longer, never true when a distance is NaN.
MayAccept(d, path, newPath) ==
    LET o == dist(d, path)
        n == dist(d, newPath)
    IN  IF o.nan \/ n.nan THEN {FALSE}
        ELSE IF o.v - n.v >= 0 THEN {TRUE}
        ELSE {TRUE, FALSE}

\* df.reindex(path).reset_index(drop=True): for each entry of the path the
\* row with that label, or a row of NaN when no row has it.
Reindex(d, path) ==
    ResetIndex([n \in 1 .. Len(path) |->
                  IF \E i \in 1 .. Len(d) : d[i].idx = path[n]
                  THEN d[CHOOSE i \in 1 .. Len(d) : d[i].idx = path[n]].row
                  ELSE EmptyRow])

\* The paths one pass of the loop body can leave, from path: two distinct
\* positions are drawn, and the swapped path replaces path when accepted.
\* Drawing [i, j] or [j, i] gives the same swapped path, so i < j is enough.
NextPaths(d, path) ==
    LET pairs == {t \in (0 .. (Len(d) - 1)) \X (0 .. (Len(d) - 1)) : t[1] < t[2]}
    IN  UNION {{IF acc THEN Swap(path, t[1], t[2]) ELSE path :
                   acc \in MayAccept(d, path, Swap(path, t[1], t[2]))} :
               t \in pairs}

\* The while loop from temperature Tnum/Tden with the given paths possible:
\* while T > 1 a pass is made and T is multiplied by 1 - coolingRate.
\* random.sample(range(n), 2) raises ValueError when n < 2.
RECURSIVE Anneal(_, _, _, _, _)
Anneal(d, paths, Tnum, Tden, rate) ==
    IF Tnum <= Tden THEN [paths |-> paths, err |-> "ok"]
    ELSE IF Len(d) < 2 THEN [paths |-> {}, err |-> "ValueError"]
    ELSE Anneal(d, UNION {NextPaths(d, q) : q \in paths},
                Tnum * (rate[2] - rate[1]), Tden * rate[2], rate)

\* The while loop as in Anneal, each possible run kept with the length of
\* the shortest path that has been its current path so far: path is the
\* current path and best that length (NaN lengths leave best alone).
RECURSIVE AnnealRuns(_, _, _, _, _)
AnnealRuns(d, runs, Tnum, Tden, rate) ==
    IF Tnum <= Tden \/ Len(d) < 2 THEN runs
    ELSE AnnealRuns(d,
             UNION {{[path |-> q,
                      best |-> IF ~dist(d, q).nan /\ dist(d, q).v < r.best
                               THEN dist(d, q).v ELSE r.best] :
                        q \in NextPaths(d, r.path)} : r \in runs},
             Tnum * (rate[2] - rate[1]), Tden * rate[2], rate)

\* The runs of shortSort on d from every start path.
ShortSortRuns(d, rate) ==
    AnnealRuns(d, {[path |-> q, best |-> dist(d, q).v] : q \in PathOrders(Len(d))},
               2 * Len(d), 1, rate)

\* Positionlist.shortSort with coolingRate = rate[1]/rate[2]: the start path
\* is any order of 0..n-1, T starts at 2n, and the rows are reindexed by the
\* path the loop ends with.  dfs holds every dataframe the draws can give.
Positionlist_shortSort(d, rate) ==
    LET a == Anneal(d, PathOrders(Len(d)), 2 * Len(d), 1, rate)
    IN  IF a.err = "ok"
        THEN [dfs |-> {Reindex(d, q) : q \in a.paths}, err |-> "ok"]
        ELSE [dfs |-> {d}, err |-> a.err]

----------------------------------------------------------------------------
(* Positionlist: actions                                                   *)

PlsAdd(name, position) ==
    LET r == Positionlist_add(df, plsCells, name, position, <<0>>, 10)
    IN  /\ Len(df) < MaxRows
        /\ df' = r.df
        /\ plsCells' = r.cells
        /\ plsLast' = [op |-> "add", err |-> "ok"]
        /\ UNCHANGED <<waVars, plsIo>>

PlsRemove(sel) ==
    LET r == Positionlist_remove(df, plsCells, sel)
    IN  /\ df' = r.df
        /\ plsCells' = r.cells
        /\ plsLast' = [op |-> "remove", err |-> r.err]
        /\ UNCHANGED <<waVars, plsIo>>

MatrixCopy(size, sel) ==
    LET r == Positionlist_matrixCopy(df, size, <<0, 4>>, <<3, 0>>, sel)
    IN  /\ Len(r.df) <= MaxRows
        /\ df' = r.df
        /\ plsLast' = [op |-> "matrixCopy", err |-> r.err]
        /\ UNCHANGED <<plsCells, waVars, plsIo>>

ShortSort(rate) ==
    \E r \in {Positionlist_shortSort(df, rate)} :
        /\ \E d \in r.dfs : df' = d
        /\ plsLast' = [op |-> "shortSort", err |-> r.err]
        /\ UNCHANGED <<plsCells, waVars, plsIo>>

\* np.sum(df[col].diff()): the sum of the differences between each row and
\* the row before it, with their sign; a difference that is NaN is skipped.
RECURSIVE SumDiff(_, _)
SumDiff(rows, col) ==
    IF Len(rows) < 2 THEN 0
    ELSE (IF col \in rows[1].nan \/ col \in rows[2].nan THEN 0
          ELSE rows[2][col] - rows[1][col]) + SumDiff(Tail(rows), col)

\* The stage-travel term s of writingTime (the term that is multiplied by
\* 5.5/10): df.loc[0,'U'] + df.loc[0,'V'] + the two sums.  loc[0, ...] is
\* the row labelled 0, KeyError when no row has that label.
writingTime_s(d) ==
    IF ~\E i \in 1 .. Len(d) : d[i].idx = 0
    THEN [err |-> "KeyError", nan |-> FALSE, v |-> 0]
    ELSE LET r0 == d[CHOOSE i \in 1 .. Len(d) : d[i].idx = 0].row
         IN  [err |-> "ok",
              nan |-> "U" \in r0.nan \/ "V" \in r0.nan,
              v   |-> r0.U + r0.V + SumDiff(RowsOf(d), "U")
                        + SumDiff(RowsOf(d), "V")]

\* Positionlist.writingTime: the list is left alone; the outcome and the
\* stage-travel term of the result are kept in plsLast.
WritingTime ==
    /\ \E r \in {writingTime_s(df)} :
          plsLast' = [op |-> "writingTime", err |-> r.err,
                      s |-> [nan |-> r.nan, v |-> r.v]]
    /\ UNCHANGED <<df, plsCells, waVars, plsIo>>

\* The size argument of matrixCopy, (rows, columns).
CopySizes == {<<1, 2>>, <<2, 1>>}

PlsNext ==
    \/ \E name \in PlsNames, position \in Positions : PlsAdd(name, position)
    \/ \E sel \in Selections : PlsRemove(sel)
    \/ \E size \in CopySizes, sel \in Selections : MatrixCopy(size, sel)
    \/ WritingTime

\* The positionlist under add, remove, matrixCopy and writingTime.
SpecPls == Init /\ [][PlsNext]_vars

\* The inputs of the specification with shortSort: one cell, and the
\* selections '@ALL_VOYAGER' and "U < 2".
SortNames == {"X"}

SortSelections ==
    {[kind |-> "all", c |-> "", k |-> 0], [kind |-> "uless", c |-> "", k |-> 2]}

SortNext ==
    \/ \E name \in SortNames, position \in Positions : PlsAdd(name, position)
    \/ \E sel \in SortSelections : PlsRemove(sel)
    \/ MatrixCopy(<<1, 2>>, [kind |-> "all", c |-> "", k |-> 0])
    \/ \E rate \in CoolingRates : ShortSort(rate)

\* The positionlist under add, remove, matrixCopy and shortSort.
SpecSort == Init /\ [][SortNext]_vars

----------------------------------------------------------------------------
(* Positionlist.rotate                                                     *)

\* Rotation keeps |U|, |V| within this many mm in the model.
MaxCoord == 3

\* At most this many rows while rotating.
MaxRotRows == 2

\* (cos(angle), sin(angle)) for angle = pi/2, pi, -pi/2; np.cos(pi/2) is
\* 6e-17 rather than 0, which the integer model leaves out.
Turns == {<<0, 1>>, <<-1, 0>>, <<0, -1>>}

\* The reference argument: a name or a tuple.
References ==
    {[kind |-> "origin", p |-> <<0, 0>>], [kind |-> "corner", p |-> <<0, 0>>],
     [kind |-> "center", p |-> <<0, 0>>], [kind |-> "tuple", p |-> <<1, 0>>]}

\* The selections handed to rotate.
RotSelections ==
    {[kind |-> "all", c |-> "", k |-> 0], [kind |-> "comment", c |-> "X", k |-> 0],
     [kind |-> "uless", c |-> "", k |-> 2]}

NaN == [nan |-> TRUE, v |-> 0]

Num(x) == [nan |-> FALSE, v |-> x]

\* A column of a row as a number or NaN.
Get(row, f) == IF f \in row.nan THEN NaN ELSE Num(row[f])

\* A row with a column set to a value or to NaN.
Put(row, f, x) ==
    IF x.nan THEN [row EXCEPT ![f] = EmptyRow[f], !.nan = @ \cup {f}]
    ELSE [row EXCEPT ![f] = x.v, !.nan = @ \ {f}]

\* a + b and c * a on numbers that may be NaN.
Plus(a, b) == IF a.nan \/ b.nan THEN NaN ELSE Num(a.v + b.v)

Times(c, a) == IF a.nan THEN NaN ELSE Num(c * a.v)

\* The values of column f over the selected rows, NaN skipped.
Selected(d, sel, f) ==
    {d[i].row[f] : i \in {j \in 1 .. Len(d) :
                            Matches(d[j].row, sel) /\ f \notin d[j].row.nan}}

Min(S) == CHOOSE x \in S : \A y \in S : x <= y

Max(S) == CHOOSE x \in S : \A y \in S : x >= y

\* np.min / np.max of a column of the selection: NaN when nothing is left.
ColMin(d, sel, f) ==
    IF Selected(d, sel, f) = {} THEN NaN ELSE Num(Min(Selected(d, sel, f)))

ColMax(d, sel, f) ==
    IF Selected(d, sel, f) = {} THEN NaN ELSE Num(Max(Selected(d, sel, f)))

\* (transx, transy) for the reference.
Pivot(d, reference, sel) ==
    CASE reference.kind = "corner" ->
           [x |-> ColMin(d, sel, "U"), y |-> ColMin(d, sel, "V")]
      [] reference.kind = "center" ->
           [x |-> LET t == Plus(ColMin(d, sel, "U"), ColMax(d, sel, "U"))
                  IN  IF t.nan THEN NaN ELSE Num(t.v \div 2),
            y |-> LET t == Plus(ColMin(d, sel, "V"), ColMax(d, sel, "V"))
                  IN  IF t.nan THEN NaN ELSE Num(t.v \div 2)]
      [] reference.kind = "origin" -> [x |-> Num(0), y |-> Num(0)]
      [] reference.kind = "tuple" ->
           [x |-> Num(reference.p[1]), y |-> Num(reference.p[2])]

\* The midpoint of the selection is a whole number of mm (or NaN), so that
\* the division by 2 above is exact.
PivotExact(d, reference, sel) ==
    reference.kind = "center" =>
        /\ LET t == Plus(ColMin(d, sel, "U"), ColMax(d, sel, "U"))
           IN  t.nan \/ t.v % 2 = 0
        /\ LET t == Plus(ColMin(d, sel, "V"), ColMax(d, sel, "V"))
           IN  t.nan \/ t.v % 2 = 0

\* df.loc[df.query(selection).index, f] = vals: one statement; vals[i] is
\* the right-hand side for row i, and the query is evaluated on the
\* dataframe as the statement finds it.
Assign(d, sel, f, vals) ==
    [i \in 1 .. Len(d) |->
        IF Matches(d[i].row, sel)
        THEN [d[i] EXCEPT !.row = Put(@, f, vals[i])]
        ELSE d[i]]

\* The six statements of rotate after the pivot t is known, in order.  The
\* fourth reads the U the third has just written.
RotateAbout(d, cs, t, sel) ==
    LET n  == Len(d)
        d1 == Assign(d, sel, "U",
                     [i \in 1 .. n |-> Plus(Get(d[i].row, "U"), Times(-1, t.x))])
        d2 == Assign(d1, sel, "V",
                     [i \in 1 .. n |-> Plus(Get(d1[i].row, "V"), Times(-1, t.y))])
        d3 == Assign(d2, sel, "U",
                     [i \in 1 .. n |-> Plus(Times(cs[1], Get(d2[i].row, "U")),
                                            Times(-cs[2], Get(d2[i].row, "V")))])
        d4 == Assign(d3, sel, "V",
                     [i \in 1 .. n |-> Plus(Times(cs[2], Get(d3[i].row, "U")),
                                            Times(cs[1], Get(d3[i].row, "V")))])
        d5 == Assign(d4, sel, "U",
                     [i \in 1 .. n |-> Plus(Get(d4[i].row, "U"), t.x)])
        d6 == Assign(d5, sel, "V",
                     [i \in 1 .. n |-> Plus(Get(d5[i].row, "V"), t.y)])
    IN  d6

\* Positionlist.rotate for a valid reference.
Positionlist_rotate(d, cs, reference, sel) ==
    RotateAbout(d, cs, Pivot(d, reference, sel), sel)

InCoordRange(d) ==
    \A i \in 1 .. Len(d) :
        /\ Abs(d[i].row.U) <= MaxCoord
        /\ Abs(d[i].row.V) <= MaxCoord

Rotate(cs, reference, sel) ==
    /\ PivotExact(df, reference, sel)
    /\ \E r \in {Positionlist_rotate(df, cs, reference, sel)} :
          /\ InCoordRange(r)
          /\ df' = r
    /\ plsLast' = [op |-> "rotate", err |-> "ok"]
    /\ UNCHANGED <<plsCells, waVars, plsIo>>

RotAdd(name, position) ==
    /\ Len(df) < MaxRotRows
    /\ PlsAdd(name, position)

RotNext ==
    \/ \E name \in PlsNames, position \in Positions : RotAdd(name, position)
    \/ \E sel \in Selections : PlsRemove(sel)
    \/ \E cs \in Turns, reference \in References, sel \in RotSelections :
          Rotate(cs, reference, sel)

\* The positionlist under add, remove and rotate.
SpecRot == Init /\ [][RotNext]_vars

----------------------------------------------------------------------------
(* The .pls file: Positionlist.write, pls_header and read_pls              *)

\* The columns of the dataframe that the model carries, in the order of the
\* constructor's column list.
Columns ==
    <<"ID", "U", "V", "Comment", "Options", "Link", "File", "Layer", "Area",
      "DoseFactor", "Dwelltime">>

\* At most this many rows while the file is written and read.
MaxFileRows == 2

\* The view argument of write; "wide" is no view pls_header knows.
Views == {"default", "minimal", "wide"}

\* File names handed to assignFile (the prefix %UserRoot%GDSII\ is put in
\* front of them).
FileNames == {"design.gds"}

\* Wafer layout names handed to the constructor and to setWaferlayout.
LayoutNames == {"12x12mm.wlo", "9x9.wlo"}

\* pd.isnull(df[col]) for some row.
AnyNull(d, col) == \E i \in 1 .. Len(d) : col \in d[i].row.nan

\* One field of a row as to_csv prints it, after Area and Layer have been
\* flattened to their ';'-joined text: nothing for NaN, the number, the
\* string, or the numbers of the array joined by ';'.
CsvField(row, col) ==
    IF col \in row.nan THEN [t |-> "", v |-> <<>>]
    ELSE IF col \in {"Layer", "Area"} THEN [t |-> "joined", v |-> row[col]]
    ELSE IF col \in {"Comment", "Options", "Link", "File"}
         THEN [t |-> "str", v |-> <<row[col]>>]
    ELSE [t |-> "num", v |-> <<row[col]>>]

\* df2.to_csv(header=False, index=False): one line of fields per row.
CsvLines(d) == [i \in 1 .. Len(d) |-> [c \in 1 .. Len(Columns) |->
                                          CsvField(d[i].row, Columns[c])]]

\* The lines pls_header puts between [COLUMNS] and [DATA]: the No. line, one
\* "<name>=..." line per column of the dataframe, and the empty line that
\* comes before [DATA].  has_eq tells whether the line holds a '=' and name
\* is the text before it (the whole line when there is none).
ColumnLines ==
    <<[name |-> "No.", has_eq |-> TRUE]>>
      \o [c \in 1 .. Len(Columns) |-> [name |-> Columns[c], has_eq |-> TRUE]]
      \o <<[name |-> "", has_eq |-> FALSE]>>

\* pls_header: fails for a view other than 'default' and 'minimal' (the
\* raise names ValueException, which is not defined: NameError).
pls_header(w, view) ==
    IF view \in {"default", "minimal"}
    THEN [err |-> "ok",
          text |-> [WAFERLAYOUT |-> w, view |-> view, columns |-> ColumnLines]]
    ELSE [err |-> "NameError", text |-> <<>>]

\* Mutant of Positionlist_write: the check of the Area column is missing.
Positionlist_write_noAreaCheck(d, w, file, view) ==
    IF AnyNull(d, "File") THEN [file |-> file, err |-> "Exception"]
    ELSE LET h == pls_header(w, view)
         IN  IF h.err # "ok"
             THEN [file |-> [exists |-> TRUE, content |-> <<>>], err |-> h.err]
             ELSE [file |-> [exists |-> TRUE,
                             content |-> <<[header |-> h.text,
                                            data |-> CsvLines(d)]>>],
                   err |-> "ok"]

\* Positionlist.write: the two checks, then open(filename, "w"), which
\* creates or empties the file, then the header and the rows are written.
\* A failure of pls_header leaves the emptied file behind.
Positionlist_write(d, w, file, view) ==
    IF AnyNull(d, "File") THEN [file |-> file, err |-> "Exception"]
    ELSE IF AnyNull(d, "Area") THEN [file |-> file, err |-> "Exception"]
    ELSE LET h == pls_header(w, view)
         IN  IF h.err # "ok"
             THEN [file |-> [exists |-> TRUE, content |-> <<>>], err |-> h.err]
             ELSE [file |-> [exists |-> TRUE,
                             content |-> <<[header |-> h.text,
                                            data |-> CsvLines(d)]>>],
                   err |-> "ok"]

\* i[0:i.find('=')] for a line between [COLUMNS] and [DATA]: the text before
\* the '='; without '=' find gives -1 and the slice drops the last
\* character, which leaves '' for the empty line.
LineName(line) == IF line.has_eq THEN line.name ELSE ""

\* The column names read_pls collects: every line's name but 'No.'.
ReadColumns(lines) ==
    LET names == [i \in 1 .. Len(lines) |-> LineName(lines[i])]
    IN  SelectSeq(names, LAMBDA n : n # "No.")

\* One field as read_csv parses it: NaN for an empty field, a number for a
\* field that is one number (so also for a one-element Layer), a string for
\* anything else (the ';'-joined text stays text).
ParseField(f) ==
    IF f.t = "" THEN [t |-> "nan", v |-> <<>>]
    ELSE IF f.t = "num" \/ (f.t = "joined" /\ Len(f.v) = 1)
         THEN [t |-> "num", v |-> f.v]
    ELSE [t |-> "str", v |-> f.v]

\* pd.read_csv(..., names=columns): field k of a line goes to column k, and
\* a column with no field is NaN.
ReadRows(data, columns) ==
    [i \in 1 .. Len(data) |->
        [c \in 1 .. Len(columns) |->
            IF c <= Len(data[i]) THEN ParseField(data[i][c])
            ELSE [t |-> "nan", v |-> <<>>]]]

\* read_pls: content.index('[HEADER]') raises ValueError on a file without
\* that line, the constructor raises ValueError for an unknown wafer layout.
read_pls(file) ==
    IF ~file.exists THEN [out |-> NoPls, err |-> "FileNotFoundError"]
    ELSE IF file.content = <<>> THEN [out |-> NoPls, err |-> "ValueError"]
    ELSE LET c == file.content[1]
         IN  IF c.header.WAFERLAYOUT \notin wafermaps
             THEN [out |-> NoPls, err |-> "ValueError"]
             ELSE [out |-> [exists |-> TRUE, wlo |-> c.header.WAFERLAYOUT,
                            columns |-> ReadColumns(c.header.columns),
                            rows |-> ReadRows(c.data,
                                              ReadColumns(c.header.columns))],
                   err |-> "ok"]

\* Positionlist(WaferLayout): a new, empty positionlist, or ValueError.
Construct(name) ==
    /\ IF name \in wafermaps
       THEN /\ df' = <<>>
            /\ plsCells' = <<>>
            /\ wlo' = name
            /\ plsLast' = [op |-> "init", err |-> "ok"]
       ELSE /\ UNCHANGED <<df, plsCells, wlo>>
            /\ plsLast' = [op |-> "init", err |-> "ValueError"]
    /\ UNCHANGED <<plsFile, plsRead, waVars>>

\* Positionlist.setWaferlayout
SetWaferlayout(name) ==
    /\ wlo' = name
    /\ plsLast' = [op |-> "setWaferlayout", err |-> "ok"]
    /\ UNCHANGED <<df, plsCells, plsFile, plsRead, waVars>>

\* Positionlist.assignFile
AssignFile(filename, sel) ==
    /\ df' = Assign(df, sel, "File",
                    [i \in 1 .. Len(df) |-> [nan |-> FALSE, v |-> filename]])
    /\ plsLast' = [op |-> "assignFile", err |-> "ok"]
    /\ UNCHANGED <<plsCells, wlo, plsFile, plsRead, waVars>>

\* Positionlist.write(filename, view)
PlsWrite(view) ==
    /\ \E r \in {Positionlist_write(df, wlo, plsFile, view)} :
          /\ plsFile' = r.file
          /\ plsLast' = [op |-> "write", err |-> r.err]
    /\ UNCHANGED <<df, plsCells, wlo, plsRead, waVars>>

\* read_pls(filename)
PlsRead ==
    /\ \E r \in {read_pls(plsFile)} :
          /\ plsRead' = IF r.err = "ok" THEN r.out ELSE plsRead
          /\ plsLast' = [op |-> "read_pls", err |-> r.err]
    /\ UNCHANGED <<df, plsCells, wlo, plsFile, waVars>>

FileAdd(name) ==
    /\ Len(df) < MaxFileRows
    /\ PlsAdd(name, <<0, 0>>)

FileNext ==
    \/ \E name \in PlsNames : FileAdd(name)
    \/ \E name \in LayoutNames : Construct(name)
    \/ \E name \in LayoutNames : SetWaferlayout(name)
    \/ \E filename \in FileNames, sel \in Selections : AssignFile(filename, sel)
    \/ \E view \in Views : PlsWrite(view)
    \/ PlsRead

\* The positionlist and its file under the constructor, add, assignFile,
\* setWaferlayout, write and read_pls.
SpecFile == Init /\ [][FileNext]_vars

----------------------------------------------------------------------------
(* The setters                                                             *)

\* At most this many rows while the setters are called.
MaxSetRows == 1

\* The selections handed to the setters.
SetSelections ==
    {[kind |-> "all", c |-> "", k |-> 0], [kind |-> "comment", c |-> "X", k |-> 0],
     [kind |-> "comment", c |-> "Y", k |-> 0]}

\* The area argument of setArea, in hundredths of a um: four values, three.
Areas == {<<0, 0, 20000, 20000>>, <<0, 0, 20000>>}

\* The option argument of setOption: 'STAY', 'DRIVE', np.nan and 'GO'.
OptionArgs ==
    {[nan |-> FALSE, v |-> "STAY"], [nan |-> FALSE, v |-> "DRIVE"],
     [nan |-> TRUE, v |-> ""], [nan |-> FALSE, v |-> "GO"]}

\* One value for every row: the right-hand side of df.loc[index, col] = x.
Const(d, x) == [i \in 1 .. Len(d) |-> [nan |-> FALSE, v |-> x]]

\* setLayer: its first statement reads the name layers, which is not
\* defined (the parameter is layer): NameError on every call.
Positionlist_setLayer(d, layer, sel) == [df |-> d, err |-> "NameError"]

\* setLink
Positionlist_setLink(d, link, sel) ==
    [df |-> Assign(d, sel, "Link", Const(d, link)), err |-> "ok"]

\* setDoseFactor
Positionlist_setDoseFactor(d, dosefactor, sel) ==
    [df |-> Assign(d, sel, "DoseFactor", Const(d, dosefactor)), err |-> "ok"]

\* setDwelltime
Positionlist_setDwelltime(d, dwelltime, sel) ==
    [df |-> Assign(d, sel, "Dwelltime", Const(d, dwelltime)), err |-> "ok"]

\* setPosition: U, then V with the selection queried again.
Positionlist_setPosition(d, position, sel) ==
    [df |-> Assign(Assign(d, sel, "U", Const(d, position[1])), sel, "V",
                   Const(d, position[2])),
     err |-> "ok"]

\* translate: U += translation[0], then V += translation[1] with the
\* selection queried again.
Positionlist_translate(d, translation, sel) ==
    LET d1 == Assign(d, sel, "U",
                  [i \in 1 .. Len(d) |->
                      Plus(Get(d[i].row, "U"), Num(translation[1]))])
    IN  [df |-> Assign(d1, sel, "V",
                   [i \in 1 .. Len(d) |->
                       Plus(Get(d1[i].row, "V"), Num(translation[2]))]),
         err |-> "ok"]

\* assignFile
Positionlist_assignFile(d, filename, sel) ==
    [df |-> Assign(d, sel, "File", Const(d, filename)), err |-> "ok"]

\* setOption: ValueError unless option is in {'STAY', 'DRIVE', np.nan}.
Positionlist_setOption(d, option, sel) ==
    IF ~(option.nan \/ option.v \in {"STAY", "DRIVE"})
    THEN [df |-> d, err |-> "ValueError"]
    ELSE [df |-> Assign(d, sel, "Options", [i \in 1 .. Len(d) |-> option]),
          err |-> "ok"]

\* setArea: ValueError unless the flattened area has 4 values; then, row by
\* row over the selection, Area is set.  With centered_on_structures the
\* first row raises before anything is set: np.flatten does not exist
\* (AttributeError) and, in a build without gdstk, neither does the name
\* gdstk (NameError).  errs holds the outcomes the build can give.
Positionlist_setArea(d, area, sel, centered_on_structures) ==
    IF Len(area) # 4 THEN [df |-> d, errs |-> {"ValueError"}]
    ELSE IF centered_on_structures /\ QueryIndex(d, sel) # <<>>
         THEN [df |-> d, errs |-> {"AttributeError", "NameError"}]
    ELSE [df |-> Assign(d, sel, "Area", Const(d, area)), errs |-> {"ok"}]

\* A call of a setter that leaves r: the dataframe and the outcome.
SetterDone(op, r) ==
    /\ df' = r.df
    /\ plsLast' = [op |-> op, err |-> r.err]
    /\ UNCHANGED <<plsCells, plsIo, waVars>>

SetLayer(layer, sel) == SetterDone("setLayer", Positionlist_setLayer(df, layer, sel))

SetLink(link, sel) == SetterDone("setLink", Positionlist_setLink(df, link, sel))

SetDoseFactor(dosefactor, sel) ==
    SetterDone("setDoseFactor", Positionlist_setDoseFactor(df, dosefactor, sel))

SetDwelltime(dwelltime, sel) ==
    SetterDone("setDwelltime", Positionlist_setDwelltime(df, dwelltime, sel))

SetPosition(position, sel) ==
    SetterDone("setPosition", Positionlist_setPosition(df, position, sel))

Translate(translation, sel) ==
    /\ InCoordRange(Positionlist_translate(df, translation, sel).df)
    /\ SetterDone("translate", Positionlist_translate(df, translation, sel))

SetFile(filename, sel) ==
    SetterDone("assignFile", Positionlist_assignFile(df, filename, sel))

SetOption(option, sel) ==
    SetterDone("setOption", Positionlist_setOption(df, option, sel))

SetArea(area, sel, centered_on_structures) ==
    \E r \in {Positionlist_setArea(df, area, sel, centered_on_structures)} :
        \E e \in r.errs : SetterDone("setArea", [df |-> r.df, err |-> e])

SetAdd(name, position) ==
    /\ Len(df) < MaxSetRows
    /\ PlsAdd(name, position)

\* A setter called with valid arguments and the selection sel.
ValidSetter(sel) ==
    \/ SetLayer(<<1>>, sel)
    \/ SetLink("L", sel)
    \/ SetDoseFactor(12, sel)
    \/ SetDwelltime(5, sel)
    \/ SetPosition(<<3, 1>>, sel)
    \/ Translate(<<3, 1>>, sel)
    \/ SetFile("design.gds", sel)
    \/ \E option \in {o \in OptionArgs : o.nan \/ o.v \in {"STAY", "DRIVE"}} :
          SetOption(option, sel)
    \/ \E area \in {a \in Areas : Len(a) = 4} : SetArea(area, sel, FALSE)

SetNext ==
    \/ \E name \in PlsNames : SetAdd(name, <<0, 0>>)
    \/ PlsRemove([kind |-> "all", c |-> "", k |-> 0])
    \/ \E sel \in SetSelections : ValidSetter(sel)

\* The positionlist under add, remove and the setters.
SpecSet == Init /\ [][SetNext]_vars

\* At most this many rows while setArea and setOption are called.
MaxAreaRows == 2

AreaAdd(name) ==
    /\ Len(df) < MaxAreaRows
    /\ PlsAdd(name, <<0, 0>>)

AreaNext ==
    \/ \E name \in PlsNames : AreaAdd(name)
    \/ \E option \in OptionArgs, sel \in SetSelections : SetOption(option, sel)
    \/ \E area \in Areas, sel \in SetSelections, c \in BOOLEAN :
          SetArea(area, sel, c)

\* The positionlist under add, setArea and setOption.
SpecArea == Init /\ [][AreaNext]_vars

----------------------------------------------------------------------------
(* Claims about the working-area registry                                  *)

\* A record is well formed: a non-empty list and active an index into it.
ActiveValid(wa) ==
    /\ Len(wa.wa_list) >= 1
    /\ 0 <= wa.active
    /\ wa.active <= Len(wa.wa_list) - 1

\* C1: after any sequence of add, delete and setActive calls every cell
\* record of the registry has a non-empty rectangle list and an active value
\* that is an index in 0..len(list)-1.
C1_ActiveValid == \A name \in DOMAIN cells : ActiveValid(cells[name])

\* The records of all cells but name are the same before and after the step.
OthersUnchanged(name) ==
    /\ (DOMAIN cells') \ {name} = (DOMAIN cells) \ {name}
    /\ \A n \in (DOMAIN cells) \ {name} : cells'[n] = cells[n]

\* l without its element at 0-based position k, the others in order.
Without(l, k) == SubSeq(l, 1, k) \o SubSeq(l, k + 2, Len(l))

\* C2: delete(cell, index) with an index in 0..len-1 on a cell with two or
\* more rectangles removes exactly the rectangle at that index, keeps the
\* order of the others and, if the index was the active one, sets active to
\* the new last index; delete without an index, or on a cell with exactly
\* one rectangle, removes the cell's record; every other cell's record is
\* unchanged.
C2_DeleteEffect ==
    [][ /\ \A name \in DOMAIN cells, num \in Nums :
             Delete(name, num) =>
               /\ OthersUnchanged(name)
               /\ IF Len(cells[name].wa_list) = 1
                  THEN name \notin DOMAIN cells'
                  ELSE (0 <= num /\ num < Len(cells[name].wa_list)) =>
                         /\ name \in DOMAIN cells'
                         /\ cells'[name].wa_list
                              = Without(cells[name].wa_list, num)
                         /\ (cells[name].active = num =>
                               cells'[name].active
                                 = Len(cells'[name].wa_list) - 1)
        /\ \A name \in DOMAIN cells :
             DeleteAll(name) =>
               /\ OthersUnchanged(name)
               /\ name \notin DOMAIN cells'
      ]_vars

\* C2 witness: the active rectangle (index 1) of a two-rectangle cell was
\* deleted while another cell has a record.
C2_Witness ==
    /\ waLast = [op |-> "delete", err |-> "ok"]
    /\ waHist["a"] = "other"
    /\ DOMAIN cells = {"a", "b"}
    /\ cells["a"] = [wa_list |-> <<RectB>>, active |-> 0]

\* C3: from [A,B,C] added in order, deleting by valid index until one
\* rectangle remains gives a single-element list with active 0, and deleting
\* index 2 from [A,B,C] gives active 1.
C3_CollapseToZero ==
    \A name \in DOMAIN cells :
        waHist[name] = "ABCdel" =>
            /\ Len(cells[name].wa_list) = 1 => cells[name].active = 0
            /\ cells[name].wa_list = <<RectA, RectB>>
                 => cells[name].active = 1

\* The resulting record of add(name, rect), stated on the lists.
AddPost(name, rect) ==
    /\ name \in DOMAIN cells'
    /\ cells'[name].wa_list
         = (IF name \in DOMAIN cells THEN cells[name].wa_list ELSE <<>>)
             \o <<rect>>
    /\ cells'[name].active = Len(cells'[name].wa_list) - 1
    /\ OthersUnchanged(name)

\* C4: add(cell, rect) appends rect as the last element of the cell's list
\* and makes it active (active = new length - 1) whatever active was; without
\* a record it creates one with the single rectangle and active 0; the
\* records of other cells are unchanged.
C4_AddEffect ==
    [][\A name \in Names, rect \in Rects :
          Add(name, rect) => AddPost(name, rect)]_vars

\* C4 witness: a rectangle was added to a cell whose active index was not
\* the last one (here out of range after a delete), beside another cell.
C4_Witness ==
    /\ waLast = [op |-> "add", err |-> "ok"]
    /\ DOMAIN cells = {"a", "b"}
    /\ waHist["a"] = "other"
    /\ cells["a"] = [wa_list |-> <<RectB, RectA>>, active |-> 1]

\* num is no index of the list of length n.
OutOfRange(n, num) == num < 0 \/ num > n - 1

\* C5: for every cell of the registry and every index outside 0..len-1
\* (negative ones and one-rectangle cells included), setActive and delete
\* fail with a range error and leave the registry unchanged.
C5_RangeError ==
    [][\A name \in DOMAIN cells, num \in Nums :
          OutOfRange(Len(cells[name].wa_list), num) =>
            /\ Delete(name, num) =>
                 /\ waLast'.err \in {"IndexError", "ValueError"}
                 /\ cells' = cells
            /\ SetActive(name, num) =>
                 /\ waLast'.err \in {"IndexError", "ValueError"}
                 /\ cells' = cells
      ]_vars

\* The active rectangle of a record.
ActiveRect(wa) == wa.wa_list[wa.active + 1]

\* Every cell of the registry has its block in the file.
WrittenWhole ==
    /\ worFile.exists
    /\ Len(worFile.blocks) = Cardinality(DOMAIN cells)

\* C6: writing a registry and reading the file back gives a registry with
\* the same cells and, for every cell, the same active rectangle (to the
\* file's three decimals) and the same active index.
C6_RoundTrip ==
    (waLast = [op |-> "read_wor", err |-> "ok"] /\ WrittenWhole) =>
        /\ DOMAIN worRead = DOMAIN cells
        /\ \A name \in DOMAIN cells :
              /\ ActiveRect(worRead[name]) = ArrayLine(ActiveRect(cells[name]))
              /\ worRead[name].active = cells[name].active

----------------------------------------------------------------------------
(* Claims about the positionlist                                           *)

\* C7: after any sequence of add and remove calls the keys of the cell map
\* are the Comment values of the remaining rows, and remove completes: it
\* drops the matching rows, deletes every cell no row refers to any more and
\* keeps every cell a row still refers to.
C7_CellMapMatches ==
    /\ Range(plsCells) = Comments(df)
    /\ plsLast.op = "remove" => plsLast.err = "ok"

\* rows2 holds the rows of rows1 in some order: the same multiset.
IsPermutation(rows1, rows2) ==
    /\ Len(rows1) = Len(rows2)
    /\ \E q \in PathOrders(Len(rows1)) :
          \A i \in 1 .. Len(rows1) : rows2[i] = rows1[q[i] + 1]

\* C8: for every reachable positionlist and every outcome of the random
\* draws, the rows after shortSort are a permutation of the rows before it:
\* none dropped, duplicated or replaced by an empty row.
C8_SortPermutes ==
    [][\A rate \in CoolingRates :
          ShortSort(rate) => IsPermutation(RowsOf(df), RowsOf(df'))]_vars

\* C9 as claimed: for a positionlist with exactly two entries shortSort
\* leaves the two rows in the order they were in.
C9_TwoUnchanged ==
    [][\A rate \in CoolingRates :
          (Len(df) = 2 /\ ShortSort(rate)) => RowsOf(df') = RowsOf(df)]_vars

\* The row of d labelled l, or a row of NaN when there is none.
RowLabelled(d, l) ==
    IF \E i \in 1 .. Len(d) : d[i].idx = l
    THEN d[CHOOSE i \in 1 .. Len(d) : d[i].idx = l].row
    ELSE EmptyRow

\* C9 amended: for a positionlist with exactly two entries shortSort ends
\* with the list reindexed by the path [0,1] or by the path [1,0]: the two
\* rows labelled 0 and 1 in either order (a row of NaN standing in for a
\* label no row has).
C9_TwoEitherOrder ==
    [][\A rate \in CoolingRates :
          (Len(df) = 2 /\ ShortSort(rate)) =>
              /\ Len(df') = 2
              /\ \E q \in {<<0, 1>>, <<1, 0>>} :
                    \A i \in 1 .. 2 : df'[i].row = RowLabelled(df, q[i])]_vars

\* C9 witness: shortSort has returned a two-entry list in reversed order.
C9_Witness ==
    /\ plsLast = [op |-> "shortSort", err |-> "ok"]
    /\ Len(df) = 2
    /\ {"ID", "U"} \cap (df[1].row.nan \cup df[2].row.nan) = {}
    /\ df[1].row.ID = 1 /\ df[2].row.ID = 0
    /\ df[1].row.U = 3 /\ df[2].row.U = 0

\* C10: rotate maps each selected row's (u, v) to
\* pivot + R(angle) * ((u, v) - pivot), the new v computed from the u before
\* the rotation; rows outside the selection keep their (u, v).
C10_RotateSimultaneous ==
    [][\A cs \in Turns, reference \in References, sel \in RotSelections :
          Rotate(cs, reference, sel) =>
            LET t == Pivot(df, reference, sel)
            IN  \A i \in 1 .. Len(df) :
                  IF Matches(df[i].row, sel)
                  THEN /\ df'[i].row.U
                            = t.x.v + cs[1] * (df[i].row.U - t.x.v)
                                - cs[2] * (df[i].row.V - t.y.v)
                       /\ df'[i].row.V
                            = t.y.v + cs[2] * (df[i].row.U - t.x.v)
                                + cs[1] * (df[i].row.V - t.y.v)
                  ELSE /\ df'[i].row.U = df[i].row.U
                       /\ df'[i].row.V = df[i].row.V]_vars

----------------------------------------------------------------------------
(* Claims about rotate, matrixCopy and the positionlist file               *)

\* rotate(angle) and then rotate(-angle) about the same reference and with
\* the same selection, applied to d.
RotateThereAndBack(d, cs, reference, sel) ==
    Positionlist_rotate(Positionlist_rotate(d, cs, reference, sel),
                        <<cs[1], -cs[2]>>, reference, sel)

\* C11: on every reachable positionlist, for every selection, every pivot
\* given as a tuple and every quarter-turn multiple, rotate(angle) followed
\* by rotate(-angle) about that pivot brings the (u, v) of every row back to
\* what it was.
C11_RotateBack ==
    \A cs \in Turns, sel \in RotSelections :
        \A reference \in {r \in References : r.kind = "tuple"} :
            \A i \in 1 .. Len(df) :
                /\ Get(RotateThereAndBack(df, cs, reference, sel)[i].row, "U")
                     = Get(df[i].row, "U")
                /\ Get(RotateThereAndBack(df, cs, reference, sel)[i].row, "V")
                     = Get(df[i].row, "V")

\* The rows the claim expects matrixCopy to append: for each grid cell
\* c = i*cols + j other than (0,0) and each selected row, that row moved by
\* i*row_vector + j*column_vector with dose_change applied c times.
ExpectedCopies(d, size, row_vector, column_vector, sel) ==
    LET picked == SelectSeq(RowsOf(d), LAMBDA r : Matches(r, sel))
        Copy(r, c) ==
            LET i == c \div size[2]
                j == c % size[2]
                r1 == Put(r, "U", Plus(Get(r, "U"),
                              Num(i * row_vector[1] + j * column_vector[1])))
                r2 == Put(r1, "V", Plus(Get(r, "V"),
                              Num(i * row_vector[2] + j * column_vector[2])))
            IN  IF "DoseFactor" \in r.nan THEN r2
                ELSE [r2 EXCEPT !.DoseFactor = func_n(c, r.DoseFactor)]
        RECURSIVE Cells(_)
        Cells(c) ==
            IF c >= size[1] * size[2] THEN <<>>
            ELSE [n \in 1 .. Len(picked) |-> Copy(picked[n], c)] \o Cells(c + 1)
    IN  Cells(1)

\* C12: on every positionlist reached by add and remove calls, matrixCopy
\* completes, keeps the rows that were there and appends exactly one copy
\* per grid cell other than (0,0) and selected row: the selected row with
\* its position offset by i*row_vector + j*column_vector and dose_change
\* applied i*cols + j times to its dose factor.
C12_MatrixCopyEffect ==
    [][\A size \in CopySizes, sel \in Selections :
          MatrixCopy(size, sel) =>
            LET exp == ExpectedCopies(df, size, <<0, 4>>, <<3, 0>>, sel)
            IN  /\ plsLast'.err = "ok"
                /\ Len(df') = Len(df) + Len(exp)
                /\ SubSeq(RowsOf(df'), 1, Len(df)) = RowsOf(df)
                /\ IsPermutation(exp,
                       SubSeq(RowsOf(df'), Len(df) + 1, Len(df')))]_vars

\* C13: write fails whenever some row has an undefined File or an undefined
\* Area, and then the file on disk (present or not) and the positionlist are
\* as before; when every row has both and the view is 'default' or
\* 'minimal', write succeeds and the file holds the wafer layout and one
\* line per row.
C13_WritePrecondition ==
    [][\A view \in Views :
          PlsWrite(view) =>
            /\ (AnyNull(df, "File") \/ AnyNull(df, "Area")) =>
                  /\ plsLast'.err # "ok"
                  /\ plsFile' = plsFile
                  /\ df' = df
            /\ (~AnyNull(df, "File") /\ ~AnyNull(df, "Area")
                  /\ view \in {"default", "minimal"}) =>
                  /\ plsLast'.err = "ok"
                  /\ plsFile'.exists
                  /\ plsFile'.content # <<>>
                  /\ plsFile'.content[1].header.WAFERLAYOUT = wlo
                  /\ plsFile'.content[1].data = CsvLines(df)]_vars

\* C13 witness: a write has failed on a list with a row without File or
\* Area while an earlier, shorter list is on disk, and the file still holds
\* that earlier list.
C13_Witness ==
    /\ plsLast = [op |-> "write", err |-> "Exception"]
    /\ AnyNull(df, "File") \/ AnyNull(df, "Area")
    /\ plsFile.exists
    /\ plsFile.content # <<>>
    /\ Len(plsFile.content[1].data) >= 1
    /\ Len(plsFile.content[1].data) < Len(df)

----------------------------------------------------------------------------
(* Claims about the setters                                                *)

\* The selection matches no row of d.
ZeroMatch(d, sel) == \A i \in 1 .. Len(d) : ~Matches(d[i].row, sel)

\* C14: each of setLayer, setLink, setDoseFactor, setArea, setPosition,
\* setDwelltime, setOption, assignFile and translate, called with valid
\* arguments and a selection that matches no row, completes and leaves the
\* table as it was.
C14_ZeroSelection ==
    [][\A sel \in SetSelections :
          (ZeroMatch(df, sel) /\ ValidSetter(sel)) =>
              /\ plsLast'.err = "ok"
              /\ df' = df]_vars

\* Row r with column col set to x and every other column kept.
RowWith(r, col, x) == [r EXCEPT ![col] = x, !.nan = @ \ {col}]

\* The option is one setOption accepts.
ValidOption(option) == option.nan \/ option.v \in {"STAY", "DRIVE"}

\* C15: setArea with an area that has not 4 values and setOption with a
\* value other than 'STAY', 'DRIVE' and undefined fail and leave every row
\* as it was, for every selection; with valid arguments they complete, set
\* Area or Options on the selected rows and leave every other column and
\* every other row as they were.
C15_AreaOptionValidation ==
    [][/\ \A area \in Areas, sel \in SetSelections, c \in BOOLEAN :
             SetArea(area, sel, c) =>
               IF Len(area) # 4
               THEN plsLast'.err # "ok" /\ df' = df
               ELSE /\ plsLast'.err = "ok"
                    /\ Len(df') = Len(df)
                    /\ \A i \in 1 .. Len(df) :
                          IF Matches(df[i].row, sel)
                          THEN /\ "Area" \notin df'[i].row.nan
                               /\ RowWith(df'[i].row, "Area", <<>>)
                                    = RowWith(df[i].row, "Area", <<>>)
                               /\ ~c => df'[i].row.Area = area
                          ELSE df'[i] = df[i]
       /\ \A option \in OptionArgs, sel \in SetSelections :
             SetOption(option, sel) =>
               IF ~ValidOption(option)
               THEN plsLast'.err # "ok" /\ df' = df
               ELSE /\ plsLast'.err = "ok"
                    /\ Len(df') = Len(df)
                    /\ \A i \in 1 .. Len(df) :
                          IF Matches(df[i].row, sel)
                          THEN df'[i].row = Put(df[i].row, "Options", option)
                          ELSE df'[i] = df[i]]_vars

----------------------------------------------------------------------------
(* Claims about the wafer layout and the .pls file                         *)

\* C16: the wafer layout of a positionlist, constructed directly or by
\* read_pls, is a key of the wafermaps table after any sequence of
\* operations, setWaferlayout among them.
C16_LayoutKnown ==
    /\ wlo \in wafermaps
    /\ plsRead.exists => plsRead.wlo \in wafermaps

\* C17: read_pls right after a write that succeeded gives a positionlist
\* with the wafer layout, the number and order of rows and the column list
\* of the one written, every value being the one written (Area and Layer as
\* their ';'-joined text).
C17_PlsRoundTrip ==
    [][(plsLast = [op |-> "write", err |-> "ok"] /\ PlsRead) =>
          /\ plsLast'.err = "ok"
          /\ plsRead'.exists
          /\ plsRead'.wlo = wlo
          /\ plsRead'.columns = Columns
          /\ Len(plsRead'.rows) = Len(df)
          /\ \A i \in 1 .. Len(df) : \A c \in 1 .. Len(Columns) :
                plsRead'.rows[i][c].v = CsvField(df[i].row, Columns[c]).v]_vars

----------------------------------------------------------------------------
(* Claims about shortSort and writingTime                                  *)

\* C18: when shortSort completes, the order it leaves is the best one of
\* the run: for every run of the loop that ends on the path the list was
\* reindexed by, the Manhattan length of that path is at most the length of
\* every path that was the current path during the run, the start path
\* included.
C18_BestFound ==
    [][\A rate \in CoolingRates :
          (ShortSort(rate) /\ plsLast'.err = "ok") =>
              \A r \in ShortSortRuns(df, rate) :
                  (df' = Reindex(df, r.path) /\ ~dist(df, r.path).nan) =>
                      dist(df, r.path).v <= r.best]_vars

\* C19: shortSort runs to completion for every number of rows, the empty
\* and the one-row list included.
C19_SortCompletes ==
    [][\A rate \in CoolingRates :
          ShortSort(rate) => plsLast'.err = "ok"]_vars

\* u_0 + v_0 + the sum over consecutive rows of |u_k - u_(k-1)| +
\* |v_k - v_(k-1)|.
RECURSIVE AbsTravel(_)
AbsTravel(rows) ==
    IF Len(rows) < 2 THEN 0
    ELSE Abs(rows[2].U - rows[1].U) + Abs(rows[2].V - rows[1].V)
           + AbsTravel(Tail(rows))

\* C20: the stage-travel term writingTime computes is u_0 + v_0 plus the
\* sum of the absolute differences of u and of v between consecutive rows.
C20_AbsoluteTravel ==
    [][(WritingTime /\ plsLast'.err = "ok" /\ ~plsLast'.s.nan) =>
          plsLast'.s.v
            = df[1].row.U + df[1].row.V + AbsTravel(RowsOf(df))]_vars

----------------------------------------------------------------------------
(* Claims about the view of write and about the ID column                  *)

\* C21: write with a view other than 'default' and 'minimal' fails before
\* the file is touched: a file that is on disk keeps its content and no
\* file is created.
C21_UnknownViewKeepsFile ==
    [][\A view \in Views \ {"default", "minimal"} :
          PlsWrite(view) =>
              /\ plsLast'.err # "ok"
              /\ plsFile' = plsFile]_vars

\* C22: after any sequence of add, remove, matrixCopy and shortSort calls no
\* two rows of the positionlist have the same ID (rows whose ID is NaN left
\* aside).
C22_IdsDistinct ==
    \A i, j \in 1 .. Len(df) :
        (i # j /\ "ID" \notin df[i].row.nan /\ "ID" \notin df[j].row.nan) =>
            df[i].row.ID # df[j].row.ID

====
